---- MODULE Spec2Model ----
(***************************************************************************)
(* Meditation-tracking browser client: session manager (app.ts), record    *)
(* access layer (services/API.ts) and the remote repository it talks to.   *)
(***************************************************************************)
EXTENDS Integers, Sequences, FiniteSets, TLC

VARIABLES
  session,      \* app.ts `session`: NoSession or the subject DID of the OAuthSession
  oauthClient,  \* app.ts `oauthClient`: "undefined" or "constructed"
  screen,       \* the section made active: "loading", "login", "app"; "markup"
                \* while the script has not chosen one
  loginStatus,  \* #loginStatus element: [text, error]
  appStatus,    \* #appStatus element: [text, error]
  boot,         \* position of the page-load code (script, DOMContentLoaded handler)
  restore,      \* how restoreSession went: "pending", "failed", "noSession", "restored"
  userInfo,     \* updateUserInfo: "idle", "pending", "profile", "fallback", "TypeError"
  login,        \* login submit handlers suspended at `await oauthClient.signIn`
  logout,       \* logout click handlers suspended at `await oauthClient.revoke`
  lastLogout,   \* how the most recent logout handler run ended
  Store,        \* services/Store.ts: [meditationSessions, presets]
  repo,         \* the remote repository: records per collection
  made,         \* history: the arguments of each create call the remote stored
  call,         \* one invocation of a record-access function and its progress
  nav           \* services/Navigation: the NavigationManager and what it renders

vars == <<session, oauthClient, screen, loginStatus, appStatus, boot, restore,
          userInfo, login, logout, lastLogout, Store, repo, made, call, nav>>

----------------------------------------------------------------------------
(* JavaScript values. A finite number v is held as the integer v * Scale,   *)
(* so that fractional seconds exist; strings are held by length and a tag.  *)

Scale == 2

JsNum(v) == [t |-> "num", n |-> v, s |-> ""]
JsWhole(k) == JsNum(k * Scale)
JsNaN == [t |-> "nan", n |-> 0, s |-> ""]
JsInf == [t |-> "inf", n |-> 0, s |-> ""]
JsNegInf == [t |-> "ninf", n |-> 0, s |-> ""]
JsStr(tag, len) == [t |-> "str", n |-> len, s |-> tag]
JsNull == [t |-> "null", n |-> 0, s |-> ""]
JsUndefined == [t |-> "undefined", n |-> 0, s |-> ""]

\* typeof x
TypeOf(x) ==
  IF x.t \in {"num", "nan", "inf", "ninf"} THEN "number"
  ELSE IF x.t = "str" THEN "string"
  ELSE IF x.t = "undefined" THEN "undefined"
  ELSE "object"

\* ToBoolean(x): what `if (x)`, `!x`, `x && ...` and `x || ...` test
Truthy(x) ==
  IF x.t = "num" THEN x.n # 0
  ELSE IF x.t \in {"inf", "ninf"} THEN TRUE
  ELSE IF x.t = "str" THEN x.n > 0
  ELSE FALSE

\* a < b on two values of type number (every comparison with NaN is false)
JsLt(a, b) ==
  IF a.t = "nan" \/ b.t = "nan" THEN FALSE
  ELSE IF a.t = "ninf" THEN b.t # "ninf"
  ELSE IF a.t = "inf" THEN FALSE
  ELSE IF b.t = "inf" THEN TRUE
  ELSE IF b.t = "ninf" THEN FALSE
  ELSE a.n < b.n

\* a > b
JsGt(a, b) == JsLt(b, a)

\* Math.floor(a) on a value of type number
MathFloor(a) ==
  IF a.t = "num" THEN JsNum((a.n \div Scale) * Scale) ELSE a

\* x || y
JsOr(x, y) == IF Truthy(x) THEN x ELSE y

\* obj.key on a record value: undefined when the property is absent
Prop(obj, key) == IF key \in DOMAIN obj THEN obj[key] ELSE JsUndefined

----------------------------------------------------------------------------
(* Thrown errors: new Error(message); `index` is the ${i} of the message.   *)

Thrown(message, i) == [msg |-> message, index |-> i]
Error(message) == Thrown(message, -1)
NoError == Error("")

NoSession == "null"

\* ensureSession(): the error it throws, NoError when there is a session
WrongEnsureSession(s) == NoError
ensureSession(s) ==
  IF s = NoSession THEN Error("User not logged in. Please sign in first.")
  ELSE NoError

----------------------------------------------------------------------------
(* services/API.ts: the record access layer.                                *)

MaxPresetIdLen == 100
MaxNotesLen == 1000
MaxNameLen == 100
MaxSoundTypeLen == 50
DefaultLimit == 50
MinLimit == 1
MaxLimit == 100

SessionCollection == "place.starting.meditationSession"
PresetCollection == "place.starting.preset"

\* new Date().toISOString()
NowISO == JsStr("iso-8601", 24)

\* the duration check shared by createMeditationSession and createPreset
WrongDurationRejected(duration) == TypeOf(duration) # "number"
DurationRejected(duration) ==
  TypeOf(duration) # "number" \/ JsLt(duration, JsNum(0))

\* createMeditationSession: parameter validation, the error thrown or NoError
WrongSessionValidation(duration, presetId, notes) ==
  IF DurationRejected(duration)
    THEN Error("Duration must be a non-negative number")
  ELSE IF Truthy(presetId) /\ TypeOf(presetId) # "string"
    THEN Error("presetId must be a string")
  ELSE IF Truthy(presetId) /\ presetId.n >= MaxPresetIdLen
    THEN Error("presetId cannot exceed 100 characters")
  ELSE IF Truthy(notes) /\ TypeOf(notes) # "string"
    THEN Error("notes must be a string")
  ELSE NoError
sessionValidation(duration, presetId, notes) ==
  IF DurationRejected(duration)
    THEN Error("Duration must be a non-negative number")
  ELSE IF Truthy(presetId) /\ TypeOf(presetId) # "string"
    THEN Error("presetId must be a string")
  ELSE IF Truthy(presetId) /\ presetId.n > MaxPresetIdLen
    THEN Error("presetId cannot exceed 100 characters")
  ELSE IF Truthy(notes) /\ TypeOf(notes) # "string"
    THEN Error("notes must be a string")
  ELSE IF Truthy(notes) /\ notes.n > MaxNotesLen
    THEN Error("notes cannot exceed 1000 characters")
  ELSE NoError

\* createMeditationSession: the record object it builds
WrongSessionRecord(duration, presetId, notes) ==
  [type |-> SessionCollection, createdAt |-> NowISO, duration |-> duration]
    @@ (IF Truthy(presetId) THEN "presetId" :> presetId ELSE <<>>)
    @@ (IF Truthy(notes) THEN "notes" :> notes ELSE <<>>)
sessionRecord(duration, presetId, notes) ==
  [type |-> SessionCollection, createdAt |-> NowISO,
   duration |-> MathFloor(duration)]
    @@ (IF Truthy(presetId) THEN "presetId" :> presetId ELSE <<>>)
    @@ (IF Truthy(notes) THEN "notes" :> notes ELSE <<>>)

\* createPreset: the loop over soundIntervals[i], i counted from 1 here;
\* the error of the first entry that fails a check, NoError when none does
RECURSIVE intervalsValidation(_, _, _)
WrongIntervalsValidation(items, duration, i) ==
  LET timeBad == {j \in i..Len(items) :
                    \/ TypeOf(items[j].time) # "number"
                    \/ JsLt(items[j].time, JsNum(0))
                    \/ JsGt(items[j].time, duration)}
      typeBad == {j \in i..Len(items) :
                    \/ ~Truthy(items[j].soundType)
                    \/ TypeOf(items[j].soundType) # "string"
                    \/ items[j].soundType.n > MaxSoundTypeLen}
      first(S) == CHOOSE j \in S : \A k \in S : j <= k
  IN IF timeBad # {}
       THEN Thrown("soundIntervals[i].time must be a non-negative number",
                   first(timeBad) - 1)
     ELSE IF typeBad # {}
       THEN Thrown("soundIntervals[i].soundType is required and must be a string",
                   first(typeBad) - 1)
     ELSE NoError
intervalsValidation(items, duration, i) ==
  IF i > Len(items) THEN NoError
  ELSE LET interval == items[i] IN
    IF TypeOf(interval.time) # "number" \/ JsLt(interval.time, JsNum(0))
      THEN Thrown("soundIntervals[i].time must be a non-negative number", i - 1)
    ELSE IF ~Truthy(interval.soundType) \/ TypeOf(interval.soundType) # "string"
      THEN Thrown("soundIntervals[i].soundType is required and must be a string", i - 1)
    ELSE IF interval.soundType.n > MaxSoundTypeLen
      THEN Thrown("soundIntervals[i].soundType cannot exceed 50 characters", i - 1)
    ELSE IF JsGt(interval.time, duration)
      THEN Thrown("soundIntervals[i].time cannot be later than preset duration", i - 1)
    ELSE intervalsValidation(items, duration, i + 1)

\* The soundIntervals argument: null, an array, or some other (truthy) object
NullIntervals == [k |-> "null", items |-> <<>>]
NotAnArray == [k |-> "object", items |-> <<>>]
ArrayOf(items) == [k |-> "array", items |-> items]

\* createPreset: parameter validation, the error thrown or NoError
WrongPresetValidation(name, duration, soundIntervals) ==
  IF ~Truthy(name) \/ TypeOf(name) # "string"
    THEN Error("name is required and must be a string")
  ELSE IF name.n > MaxNameLen
    THEN Error("name cannot exceed 100 characters")
  ELSE IF DurationRejected(duration)
    THEN Error("duration must be a non-negative number")
  ELSE IF soundIntervals.k = "null" THEN NoError
  ELSE IF soundIntervals.k # "array"
    THEN Error("soundIntervals must be an array")
  ELSE intervalsValidation(soundIntervals.items, duration, 2)
presetValidation(name, duration, soundIntervals) ==
  IF ~Truthy(name) \/ TypeOf(name) # "string"
    THEN Error("name is required and must be a string")
  ELSE IF name.n > MaxNameLen
    THEN Error("name cannot exceed 100 characters")
  ELSE IF DurationRejected(duration)
    THEN Error("duration must be a non-negative number")
  ELSE IF soundIntervals.k = "null" THEN NoError
  ELSE IF soundIntervals.k # "array"
    THEN Error("soundIntervals must be an array")
  ELSE intervalsValidation(soundIntervals.items, duration, 1)

\* createPreset: the record object it builds
WrongPresetRecord(name, duration, soundIntervals) ==
  [type |-> PresetCollection, name |-> name, duration |-> MathFloor(duration),
   createdAt |-> NowISO, soundIntervals |-> soundIntervals]
presetRecord(name, duration, soundIntervals) ==
  [type |-> PresetCollection, name |-> name, duration |-> MathFloor(duration),
   createdAt |-> NowISO]
    @@ (IF soundIntervals.k = "array" /\ Len(soundIntervals.items) > 0
          THEN "soundIntervals" :> soundIntervals ELSE <<>>)

\* The synchronous part of a create function, up to its `await`: validation,
\* record, createAgent() and the createRecord request. [error, requests]
WrongCreateStart(s, validation, collection, record) ==
  IF validation # NoError THEN [error |-> validation, requests |-> <<>>]
  ELSE IF ensureSession(s) # NoError
    THEN [error |-> ensureSession(s), requests |-> <<>>]
  ELSE [error |-> NoError,
        requests |-> << [op |-> "createRecord", repo |-> s,
                         collection |-> PresetCollection, record |-> record] >>]
createStart(s, validation, collection, record) ==
  IF validation # NoError THEN [error |-> validation, requests |-> <<>>]
  ELSE IF ensureSession(s) # NoError
    THEN [error |-> ensureSession(s), requests |-> <<>>]
  ELSE [error |-> NoError,
        requests |-> << [op |-> "createRecord", repo |-> s,
                         collection |-> collection, record |-> record] >>]

\* `const { limit = 50, ... } = options`
limitOrDefault(limit) ==
  IF limit.t = "undefined" THEN JsWhole(DefaultLimit) ELSE limit

\* the pagination check of getMeditationSessions and getPresets
WrongLimitRejected(limit) ==
  JsLt(limit, JsWhole(MinLimit)) \/ ~JsLt(limit, JsWhole(MaxLimit))
LimitRejected(limit) ==
  JsLt(limit, JsWhole(MinLimit)) \/ JsGt(limit, JsWhole(MaxLimit))

\* The synchronous part of getMeditationSessions / getPresets, up to `await`
WrongListStart(s, collection, limitArg, cursor, reverse) ==
  LET limit == limitOrDefault(limitArg) IN
  IF LimitRejected(limit)
    THEN [error |-> Error("limit must be between 1 and 100"), requests |-> <<>>]
  ELSE IF ensureSession(s) # NoError
    THEN [error |-> ensureSession(s), requests |-> <<>>]
  ELSE [error |-> NoError,
        requests |-> << [op |-> "listRecords", repo |-> s,
                         collection |-> collection, limit |-> limit,
                         reverse |-> reverse] >>]
listStart(s, collection, limitArg, cursor, reverse) ==
  LET limit == limitOrDefault(limitArg) IN
  IF LimitRejected(limit)
    THEN [error |-> Error("limit must be between 1 and 100"), requests |-> <<>>]
  ELSE IF ensureSession(s) # NoError
    THEN [error |-> ensureSession(s), requests |-> <<>>]
  ELSE [error |-> NoError,
        requests |-> << [op |-> "listRecords", repo |-> s,
                         collection |-> collection, limit |-> limit,
                         reverse |-> reverse]
                        @@ (IF Truthy(cursor) THEN "cursor" :> cursor ELSE <<>>) >>]

\* getMeditationSessions: one remote record mapped to MeditationSessionData
WrongMapSession(record) ==
  [uri |-> record.uri, cid |-> record.cid,
   createdAt |-> Prop(record.value, "createdAt"),
   duration |-> Prop(record.value, "duration"),
   presetId |-> JsOr(Prop(record.value, "presetId"), JsNull),
   notes |-> JsNull]
mapSession(record) ==
  [uri |-> record.uri, cid |-> record.cid,
   createdAt |-> Prop(record.value, "createdAt"),
   duration |-> Prop(record.value, "duration"),
   presetId |-> JsOr(Prop(record.value, "presetId"), JsNull),
   notes |-> JsOr(Prop(record.value, "notes"), JsNull)]

\* getPresets: one remote record mapped to PresetData
WrongMapPreset(record) ==
  [uri |-> record.uri, cid |-> record.cid,
   name |-> Prop(record.value, "name"),
   duration |-> Prop(record.value, "duration"),
   createdAt |-> Prop(record.value, "createdAt"),
   soundIntervals |-> Prop(record.value, "soundIntervals")]
mapPreset(record) ==
  [uri |-> record.uri, cid |-> record.cid,
   name |-> Prop(record.value, "name"),
   duration |-> Prop(record.value, "duration"),
   createdAt |-> Prop(record.value, "createdAt"),
   soundIntervals |-> IF Prop(record.value, "soundIntervals") = JsUndefined
                        THEN ArrayOf(<<>>)
                        ELSE Prop(record.value, "soundIntervals")]

\* the value getMeditationSessions / getPresets returns for response.data
WrongListResponse(collection, data) ==
  [items |-> [i \in 1..Len(data.records) |->
                IF collection = SessionCollection
                  THEN mapSession(data.records[i])
                  ELSE mapPreset(data.records[i])],
   cursor |-> JsNull,
   total |-> Len(data.records)]
listResponse(collection, data) ==
  [items |-> [i \in 1..Len(data.records) |->
                IF collection = SessionCollection
                  THEN mapSession(data.records[i])
                  ELSE mapPreset(data.records[i])],
   cursor |-> JsOr(Prop(data, "cursor"), JsNull),
   total |-> Len(data.records)]

\* the value a create function returns for response.data
createResponse(data) ==
  [uri |-> data.uri, cid |-> data.cid,
   validationStatus |-> Prop(data, "validationStatus")]

----------------------------------------------------------------------------
(* The remote repository behind agent.com.atproto.repo: it stores what it   *)
(* is sent and lists it page by page. A cursor it issues is a string whose  *)
(* length is the number of records already listed.                          *)

MaxRepo == 2

Min(a, b) == IF a < b THEN a ELSE b

Reverse(seq) == [i \in 1..Len(seq) |-> seq[Len(seq) + 1 - i]]

\* createRecord: the stored record, under the next free record key
remoteStored(req) ==
  [uri |-> <<req.repo, req.collection, Len(repo[req.collection]) + 1>>,
   cid |-> Len(repo[req.collection]) + 1,
   value |-> req.record]

\* listRecords: response.data for a request
remotePage(req) ==
  LET all == IF req.reverse THEN Reverse(repo[req.collection])
                            ELSE repo[req.collection]
      start == IF "cursor" \in DOMAIN req THEN Min(req.cursor.n, Len(all)) ELSE 0
      count == Min(req.limit.n \div Scale, Len(all) - start)
  IN [records |-> SubSeq(all, start + 1, start + count)]
       @@ (IF start + count < Len(all)
             THEN "cursor" :> JsStr("cursor", start + count) ELSE <<>>)

----------------------------------------------------------------------------
(* One invocation of a record-access function by a caller, and its          *)
(* completion when the remote answers.                                      *)

NoCall == [stage |-> "idle"]

Invoked(s, op, args, start) ==
  [stage |-> IF start.error = NoError THEN "pending" ELSE "threw",
   op |-> op, args |-> args, session |-> s,
   error |-> start.error, requests |-> start.requests]

pageVars == <<oauthClient, screen, loginStatus, appStatus, boot, restore,
              userInfo, login, logout, lastLogout, Store, nav>>

createMeditationSession(duration, presetId, notes) ==
  /\ call.stage # "pending"
  /\ call' = Invoked(session, "createMeditationSession",
                     [duration |-> duration, presetId |-> presetId, notes |-> notes],
                     createStart(session,
                                 sessionValidation(duration, presetId, notes),
                                 SessionCollection,
                                 sessionRecord(duration, presetId, notes)))
  /\ UNCHANGED <<session, repo, made, pageVars>>

createPreset(name, duration, soundIntervals) ==
  /\ call.stage # "pending"
  /\ call' = Invoked(session, "createPreset",
                     [name |-> name, duration |-> duration,
                      soundIntervals |-> soundIntervals],
                     createStart(session,
                                 presetValidation(name, duration, soundIntervals),
                                 PresetCollection,
                                 presetRecord(name, duration, soundIntervals)))
  /\ UNCHANGED <<session, repo, made, pageVars>>

getMeditationSessions(limit, cursor, reverse) ==
  /\ call.stage # "pending"
  /\ call' = Invoked(session, "getMeditationSessions",
                     [limit |-> limit, cursor |-> cursor, reverse |-> reverse],
                     listStart(session, SessionCollection, limit, cursor, reverse))
  /\ UNCHANGED <<session, repo, made, pageVars>>

getPresets(limit, cursor, reverse) ==
  /\ call.stage # "pending"
  /\ call' = Invoked(session, "getPresets",
                     [limit |-> limit, cursor |-> cursor, reverse |-> reverse],
                     listStart(session, PresetCollection, limit, cursor, reverse))
  /\ UNCHANGED <<session, repo, made, pageVars>>

\* the awaited createRecord resolves: the function returns
createRecordResolves ==
  /\ call.stage = "pending"
  /\ call.requests[1].op = "createRecord"
  /\ Len(repo[call.requests[1].collection]) < MaxRepo
  /\ LET req == call.requests[1]
         stored == remoteStored(req)
     IN /\ repo' = [repo EXCEPT ![req.collection] = Append(@, stored)]
        /\ made' = Append(made, [uri |-> stored.uri, args |-> call.args])
        /\ call' = [call EXCEPT !.stage = "returned"]
                     @@ [result |-> createResponse([uri |-> stored.uri,
                                                    cid |-> stored.cid])]
  /\ UNCHANGED <<session, pageVars>>

\* the awaited listRecords resolves: the function returns the mapped page
listRecordsResolves ==
  /\ call.stage = "pending"
  /\ call.requests[1].op = "listRecords"
  /\ LET req == call.requests[1]
     IN call' = [call EXCEPT !.stage = "returned"]
                  @@ [result |-> listResponse(req.collection, remotePage(req))]
  /\ UNCHANGED <<session, repo, made, pageVars>>

\* the awaited request rejects: the rejection leaves the function as it is
WrongRequestRejects ==
  /\ call.stage = "pending"
  /\ call' = IF Len(call.requests) = 1
               THEN [call EXCEPT !.requests = @ \o @]
               ELSE [call EXCEPT !.stage = "threw",
                                 !.error = Error("remote request failed")]
  /\ UNCHANGED <<session, repo, made, pageVars>>
requestRejects ==
  /\ call.stage = "pending"
  /\ call' = [call EXCEPT !.stage = "threw", !.error = Error("remote request failed")]
  /\ UNCHANGED <<session, repo, made, pageVars>>

----------------------------------------------------------------------------
(* The NavigationManager. The repository holds two builds of it: the one    *)
(* whose 'Start Meditation' button writes a session record and reloads the  *)
(* list (services/Navigation.ts), and the one whose button starts the       *)
(* countdown of the meditating view. A page runs one build.                 *)

SubmitBuild == "submit and reload"
CountdownBuild == "countdown"

Views == {"mainMenu", "newMeditation", "presets", "sessions", "meditating"}

\* before initializeMainMenu(): no manager, nothing rendered, no timers
NoNav(build) ==
  [build |-> build,
   menu |-> FALSE,             \* initializeMainMenu() has run
   currentView |-> "mainMenu", \* NavigationManager.currentView
   timers |-> <<>>,            \* setInterval callbacks not yet cleared
   countdown |-> [text |-> "", minutes |-> 0, seconds |-> 0],
                               \* text of the latest countdown element
   timeouts |-> 0,             \* setTimeout callbacks not yet run
   banner |-> TRUE,            \* the #appStatus element is in the document
   containers |-> [v \in Views \ {"mainMenu"} |-> <<>>]]

\* the manager once initializeMainMenu() has constructed it
initializeMainMenu == [nav EXCEPT !.menu = TRUE]

----------------------------------------------------------------------------
(* Arguments the record-access functions are invoked with.                  *)

MaxIntervals == 2

Alice == "did:plc:alice"

Durations ==
  {JsNum(-1), JsNum(0), JsWhole(10), JsNum(10 * Scale + 1),
   JsNaN, JsInf, JsNegInf, JsStr("600", 3)}
PresetIds ==
  {JsNull, JsStr("", 0), JsStr("preset-123", 10), JsStr("p", MaxPresetIdLen),
   JsStr("p", MaxPresetIdLen + 1), JsWhole(5), JsWhole(0)}
NotesValues ==
  {JsNull, JsStr("", 0), JsStr("felt calm", 9), JsStr("n", MaxNotesLen),
   JsStr("n", MaxNotesLen + 1), JsWhole(5), JsWhole(0)}
Names ==
  {JsStr("", 0), JsStr("Morning", 7), JsStr("m", MaxNameLen),
   JsStr("m", MaxNameLen + 1), JsNull, JsWhole(5)}
Times == {JsNum(-1), JsNum(0), JsNum(10 * Scale + 1), JsNaN, JsStr("5", 1)}
SoundTypes ==
  {JsStr("", 0), JsStr("bell", 4), JsStr("s", MaxSoundTypeLen + 1), JsWhole(1)}
Intervals == [time : Times, soundType : SoundTypes]

RECURSIVE SeqsUpTo(_, _)
SeqsUpTo(S, n) ==
  IF n = 0 THEN {<<>>}
  ELSE LET shorter == SeqsUpTo(S, n - 1)
       IN shorter \cup {Append(q, x) : q \in shorter, x \in S}

IntervalArgs ==
  {NullIntervals, NotAnArray} \cup {ArrayOf(q) : q \in SeqsUpTo(Intervals, MaxIntervals)}

Limits ==
  {JsUndefined, JsNum(1), JsNum(MaxLimit * Scale + 1)}
    \cup {JsWhole(k) : k \in (MinLimit - 2)..(MaxLimit + 2)}
Cursors == {JsNull, JsStr("", 0), JsStr("cursor", 1)}

\* records already in the repository when the page is opened
SeedSessions ==
  << [uri |-> <<Alice, SessionCollection, 1>>, cid |-> 1,
      value |-> sessionRecord(JsWhole(300), JsStr("preset-123", 10), JsNull)] >>
SeedPresets ==
  << [uri |-> <<Alice, PresetCollection, 1>>, cid |-> 1,
      value |-> presetRecord(JsStr("Morning", 7), JsWhole(600), NullIntervals)] >>
SeedRepo ==
  (SessionCollection :> SeedSessions) @@ (PresetCollection :> SeedPresets)

NoStatus == [text |-> "", error |-> FALSE]

\* A page that has finished loading, signed in or not, about to make one call
InitApi ==
  /\ session \in {NoSession, Alice}
  /\ oauthClient = "constructed"
  /\ screen = IF session = NoSession THEN "login" ELSE "app"
  /\ loginStatus = NoStatus
  /\ appStatus = NoStatus
  /\ boot = "ready"
  /\ restore = IF session = NoSession THEN "noSession" ELSE "restored"
  /\ userInfo = IF session = NoSession THEN "idle" ELSE "profile"
  /\ login = 0
  /\ logout = 0
  /\ lastLogout = "none"
  /\ Store = [meditationSessions |-> <<>>, presets |-> <<>>]
  /\ repo = SeedRepo
  /\ made = <<>>
  /\ call = NoCall
  /\ nav = NoNav(SubmitBuild)

NextApi ==
  \/ /\ call.stage = "idle"
     /\ \E d \in Durations, p \in PresetIds, n \in NotesValues :
          createMeditationSession(d, p, n)
  \/ /\ call.stage = "idle"
     /\ \E name \in Names, d \in Durations, si \in IntervalArgs :
          createPreset(name, d, si)
  \/ /\ call.stage = "idle"
     /\ \E l \in Limits, c \in Cursors, r \in BOOLEAN :
          getMeditationSessions(l, c, r)
  \/ /\ call.stage = "idle"
     /\ \E l \in Limits, c \in Cursors, r \in BOOLEAN :
          getPresets(l, c, r)
  \/ createRecordResolves
  \/ listRecordsResolves
  \/ requestRejects

SpecApi == InitApi /\ [][NextApi]_vars

----------------------------------------------------------------------------
(* app.ts: the page. Script load, the DOMContentLoaded handler with         *)
(* restoreSession, updateUserInfo and loadUserData, and the two handlers    *)
(* it registers.                                                            *)

MaxClicks == 2

showLoadingScreen == "loading"
showLoginScreen == "login"
showAppScreen == "app"
showStatus(message, isError) == [text |-> message, error |-> isError]

EmptyRepo == (SessionCollection :> <<>>) @@ (PresetCollection :> <<>>)
UrlParams == SUBSET {"code", "error", "state"}
Handles == {<<>>, <<" ", " ">>, <<"a", "l">>, <<" ", "a", " ">>}

\* String.prototype.trim on a sequence of characters
RECURSIVE trim(_)
trim(h) ==
  IF h = <<>> THEN h
  ELSE IF Head(h) = " " THEN trim(Tail(h))
  ELSE IF h[Len(h)] = " " THEN trim(SubSeq(h, 1, Len(h) - 1))
  ELSE h

Init ==
  /\ session = NoSession
  /\ oauthClient = "undefined"
  /\ screen = "markup"
  /\ loginStatus = NoStatus
  /\ appStatus = NoStatus
  /\ boot = "script"
  /\ restore = "pending"
  /\ userInfo = "idle"
  /\ login = 0
  /\ logout = 0
  /\ lastLogout = "none"
  /\ Store = [meditationSessions |-> <<>>, presets |-> <<>>]
  /\ repo \in {EmptyRepo, SeedRepo}
  /\ made = <<>>
  /\ call = NoCall
  /\ nav = NoNav(SubmitBuild)

\* the script's top level: initOAuthClient(), whose constructor may throw
initOAuthClient ==
  /\ boot = "script"
  /\ boot' = "loaded"
  /\ \/ /\ oauthClient' = "constructed"
        /\ UNCHANGED loginStatus
     \/ /\ oauthClient' = "undefined"
        /\ loginStatus' = showStatus("Error: constructor", TRUE)
  /\ UNCHANGED <<nav, session, screen, appStatus, restore, userInfo, login, logout,
                 lastLogout, Store, repo, made, call>>

\* the DOMContentLoaded handler up to `await oauthClient.init()`; with no
\* client the call throws inside restoreSession's try and the handler goes on
\* to register the form and button handlers
WrongDOMContentLoaded(query, hash) ==
  LET isOAuthCallback == "code" \in query \/ "error" \in query
      shown == IF isOAuthCallback THEN showLoadingScreen ELSE screen
  IN /\ boot = "loaded"
     /\ IF oauthClient = "undefined"
          THEN /\ screen' = showLoginScreen
               /\ restore' = "failed"
               /\ boot' = "ready"
          ELSE /\ screen' = shown
               /\ restore' = "pending"
               /\ boot' = "init"
     /\ UNCHANGED <<nav, session, oauthClient, loginStatus, appStatus, userInfo, login,
                    logout, lastLogout, Store, repo, made, call>>
DOMContentLoaded(query, hash) ==
  LET isOAuthCallback == \/ "code" \in query \/ "error" \in query
                         \/ "code" \in hash \/ "error" \in hash
      shown == IF isOAuthCallback THEN showLoadingScreen ELSE screen
  IN /\ boot = "loaded"
     /\ IF oauthClient = "undefined"
          THEN /\ screen' = showLoginScreen
               /\ restore' = "failed"
               /\ boot' = "ready"
          ELSE /\ screen' = shown
               /\ restore' = "pending"
               /\ boot' = "init"
     /\ UNCHANGED <<nav, session, oauthClient, loginStatus, appStatus, userInfo, login,
                    logout, lastLogout, Store, repo, made, call>>

\* restoreSession after init() resolved: with a result, the session is set,
\* updateUserInfo() is started and loadUserData() runs up to its first await
WrongInitResolves(hasResult) ==
  /\ boot = "init"
  /\ IF hasResult
       THEN LET start == listStart(Alice, SessionCollection, JsUndefined,
                                   JsNull, FALSE)
            IN /\ session' = Alice
               /\ screen' = showAppScreen
               /\ userInfo' = "pending"
               /\ restore' = "restored"
               /\ call' = Invoked(Alice, "getMeditationSessions",
                                  [limit |-> JsUndefined, cursor |-> JsNull,
                                   reverse |-> FALSE], start)
               /\ boot' = IF start.error = NoError THEN "loadSessions" ELSE "ready"
               /\ nav' = initializeMainMenu
       ELSE /\ screen' = showLoginScreen
            /\ restore' = "noSession"
            /\ boot' = "ready"
            /\ UNCHANGED <<session, userInfo, call, nav>>
  /\ UNCHANGED <<oauthClient, loginStatus, appStatus, login, logout, lastLogout,
                 Store, repo, made>>
initResolves(hasResult) ==
  /\ boot = "init"
  /\ IF hasResult
       THEN LET start == listStart(Alice, SessionCollection, JsUndefined,
                                   JsNull, FALSE)
            IN /\ session' = Alice
               /\ screen' = showAppScreen
               /\ userInfo' = "pending"
               /\ restore' = "restored"
               /\ call' = Invoked(Alice, "getMeditationSessions",
                                  [limit |-> JsUndefined, cursor |-> JsNull,
                                   reverse |-> FALSE], start)
               /\ boot' = IF start.error = NoError THEN "loadSessions" ELSE "ready"
               /\ nav' = IF start.error = NoError THEN nav ELSE initializeMainMenu
       ELSE /\ screen' = showLoginScreen
            /\ restore' = "noSession"
            /\ boot' = "ready"
            /\ UNCHANGED <<session, userInfo, call, nav>>
  /\ UNCHANGED <<oauthClient, loginStatus, appStatus, login, logout, lastLogout,
                 Store, repo, made>>

\* restoreSession after init() rejected: the catch block
WrongInitRejects ==
  /\ boot = "init"
  /\ restore' = "failed"
  /\ boot' = "unhandled rejection"
  /\ UNCHANGED <<nav, session, oauthClient, screen, loginStatus, appStatus, userInfo,
                 login, logout, lastLogout, Store, repo, made, call>>
initRejects ==
  /\ boot = "init"
  /\ screen' = showLoginScreen
  /\ restore' = "failed"
  /\ boot' = "ready"
  /\ UNCHANGED <<nav, session, oauthClient, loginStatus, appStatus, userInfo, login,
                 logout, lastLogout, Store, repo, made, call>>

\* loadUserData after getMeditationSessions() returned, up to getPresets()
loadSessionsResolves ==
  /\ boot = "loadSessions"
  /\ call.stage = "pending"
  /\ LET req == call.requests[1]
         sessionsResponse == listResponse(req.collection, remotePage(req))
         start == listStart(session, PresetCollection, JsUndefined, JsNull, FALSE)
     IN /\ Store' = [Store EXCEPT !.meditationSessions = sessionsResponse.items]
        /\ call' = Invoked(session, "getPresets",
                           [limit |-> JsUndefined, cursor |-> JsNull,
                            reverse |-> FALSE], start)
        /\ boot' = IF start.error = NoError THEN "loadPresets" ELSE "ready"
        /\ nav' = IF start.error = NoError THEN nav ELSE initializeMainMenu
  /\ UNCHANGED <<session, oauthClient, screen, loginStatus, appStatus, restore,
                 userInfo, login, logout, lastLogout, repo, made>>

\* loadUserData after getPresets() returned; then initializeMainMenu() and
\* the rest of the DOMContentLoaded handler
loadPresetsResolves ==
  /\ boot = "loadPresets"
  /\ call.stage = "pending"
  /\ LET req == call.requests[1]
         presetsResponse == listResponse(req.collection, remotePage(req))
     IN /\ Store' = [Store EXCEPT !.presets = presetsResponse.items]
        /\ call' = [call EXCEPT !.stage = "returned"]
                     @@ [result |-> presetsResponse]
  /\ boot' = "ready"
  /\ nav' = initializeMainMenu
  /\ UNCHANGED <<session, oauthClient, screen, loginStatus, appStatus, restore,
                 userInfo, login, logout, lastLogout, repo, made>>

\* loadUserData's catch block, for a listing that rejected
WrongLoadUserDataRejects ==
  /\ boot \in {"loadSessions", "loadPresets"}
  /\ call.stage = "pending"
  /\ call' = [call EXCEPT !.stage = "threw",
                          !.error = Error("remote request failed")]
  /\ boot' = "ready"
  /\ nav' = initializeMainMenu
  /\ Store' = [meditationSessions |-> <<>>, presets |-> <<>>]
  /\ UNCHANGED <<session, oauthClient, screen, loginStatus, appStatus, restore,
                 userInfo, login, logout, lastLogout, repo, made>>
loadUserDataRejects ==
  /\ boot \in {"loadSessions", "loadPresets"}
  /\ call.stage = "pending"
  /\ call' = [call EXCEPT !.stage = "threw",
                          !.error = Error("remote request failed")]
  /\ boot' = "ready"
  /\ nav' = initializeMainMenu
  /\ UNCHANGED <<session, oauthClient, screen, loginStatus, appStatus, restore,
                 userInfo, login, logout, lastLogout, Store, repo, made>>

\* updateUserInfo after getProfile settled: both branches read session.sub
userInfoSettles(resolved) ==
  /\ userInfo = "pending"
  /\ boot # "redirected"
  /\ userInfo' = IF session = NoSession THEN "TypeError"
                 ELSE IF resolved THEN "profile" ELSE "fallback"
  /\ UNCHANGED <<nav, session, oauthClient, screen, loginStatus, appStatus, boot,
                 restore, login, logout, lastLogout, Store, repo, made, call>>

\* the login form's submit handler up to `await oauthClient.signIn`
loginSubmit(handle) ==
  /\ boot = "ready"
  /\ screen = showLoginScreen
  /\ IF trim(handle) = <<>>
       THEN /\ loginStatus' = showStatus("Please enter your handle", TRUE)
            /\ UNCHANGED login
       ELSE IF oauthClient = "undefined"
         THEN /\ loginStatus' = showStatus("Login failed", TRUE)
              /\ UNCHANGED login
         ELSE /\ login < MaxClicks
              /\ loginStatus' = showStatus("Redirecting to sign in...", FALSE)
              /\ login' = login + 1
  /\ UNCHANGED <<nav, session, oauthClient, screen, appStatus, boot, restore, userInfo,
                 logout, lastLogout, Store, repo, made, call>>

\* signIn navigates to the authorization server: this page instance ends
signInRedirects ==
  /\ boot = "ready"
  /\ login > 0
  /\ boot' = "redirected"
  /\ UNCHANGED <<nav, session, oauthClient, screen, loginStatus, appStatus, restore,
                 userInfo, login, logout, lastLogout, Store, repo, made, call>>

\* signIn rejected: the submit handler's catch block
WrongSignInRejects ==
  /\ boot = "ready"
  /\ login > 0
  /\ login' = login - 1
  /\ UNCHANGED <<nav, session, oauthClient, screen, loginStatus, appStatus, boot,
                 restore, userInfo, logout, lastLogout, Store, repo, made, call>>
signInRejects ==
  /\ boot = "ready"
  /\ login > 0
  /\ login' = login - 1
  /\ loginStatus' = showStatus("Login failed", TRUE)
  /\ UNCHANGED <<nav, session, oauthClient, screen, appStatus, boot, restore, userInfo,
                 logout, lastLogout, Store, repo, made, call>>

\* the logout button's click handler up to `await oauthClient.revoke`, or to
\* its end when there is no session to revoke
WrongLogoutClick ==
  /\ boot \in {"init", "loadSessions", "loadPresets", "ready"}
  /\ IF session # NoSession
       THEN /\ logout < MaxClicks
            /\ logout' = logout + 1
            /\ UNCHANGED <<session, screen, loginStatus, lastLogout>>
       ELSE /\ session' = NoSession
            /\ screen' = showLoginScreen
            /\ loginStatus' = showStatus("Signed out successfully", FALSE)
            /\ lastLogout' = "signedOut"
            /\ UNCHANGED logout
  /\ UNCHANGED <<nav, oauthClient, appStatus, boot, restore, userInfo, login, Store,
                 repo, made, call>>
logoutClick ==
  /\ boot = "ready"
  /\ IF session # NoSession
       THEN /\ logout < MaxClicks
            /\ logout' = logout + 1
            /\ UNCHANGED <<session, screen, loginStatus, lastLogout>>
       ELSE /\ session' = NoSession
            /\ screen' = showLoginScreen
            /\ loginStatus' = showStatus("Signed out successfully", FALSE)
            /\ lastLogout' = "signedOut"
            /\ UNCHANGED logout
  /\ UNCHANGED <<nav, oauthClient, appStatus, boot, restore, userInfo, login, Store,
                 repo, made, call>>

\* revoke resolved: the rest of the click handler's try block
WrongRevokeResolves ==
  /\ boot = "ready"
  /\ logout > 0
  /\ logout' = logout - 1
  /\ session' = NoSession
  /\ loginStatus' = showStatus("Signed out successfully", FALSE)
  /\ lastLogout' = "signedOut"
  /\ UNCHANGED <<nav, oauthClient, screen, appStatus, boot, restore, userInfo, login,
                 Store, repo, made, call>>
revokeResolves ==
  /\ boot = "ready"
  /\ logout > 0
  /\ logout' = logout - 1
  /\ session' = NoSession
  /\ screen' = showLoginScreen
  /\ loginStatus' = showStatus("Signed out successfully", FALSE)
  /\ lastLogout' = "signedOut"
  /\ UNCHANGED <<nav, oauthClient, appStatus, boot, restore, userInfo, login, Store,
                 repo, made, call>>

\* revoke rejected: the click handler's catch block; showStatus throws a
\* TypeError out of it when the #appStatus element is no longer in the document
revokeRejects ==
  /\ boot = "ready"
  /\ logout > 0
  /\ logout' = logout - 1
  /\ appStatus' = IF nav.banner THEN showStatus("Logout failed", TRUE) ELSE appStatus
  /\ lastLogout' = IF nav.banner THEN "failed" ELSE "TypeError"
  /\ UNCHANGED <<nav, session, oauthClient, screen, loginStatus, boot, restore,
                 userInfo, login, Store, repo, made, call>>

----------------------------------------------------------------------------
(* services/Navigation.ts: the 'Start Meditation' button of the new         *)
(* meditation form, which creates a session record and reloads the list.    *)

\* parseInt(durationInput.value), presetSelect.value, notesTextarea.value.trim()
Minutes == {JsWhole(-1), JsWhole(10)}
PresetChoices == {JsStr("preset-123", 10)}
NotesTexts == {JsStr("", 0)}

\* minutes * 60
toSeconds(minutes) ==
  IF minutes.t = "num" THEN JsNum(minutes.n * 60) ELSE minutes

\* the click handler up to `await createMeditationSession(...)`; a throw of
\* the call is caught by the handler's catch block
startMeditationClick(minutes, choice, text) ==
  LET duration == toSeconds(minutes)
      presetId == JsOr(choice, JsNull)
      notes == JsOr(text, JsNull)
      start == createStart(session, sessionValidation(duration, presetId, notes),
                           SessionCollection,
                           sessionRecord(duration, presetId, notes))
  IN /\ boot = "ready"
     /\ restore = "restored"
     /\ screen = showAppScreen
     /\ call.stage # "pending"
     /\ call' = Invoked(session, "createMeditationSession",
                        [duration |-> duration, presetId |-> presetId,
                         notes |-> notes], start)
     /\ appStatus' = IF start.error = NoError \/ ~nav.banner THEN appStatus
                     ELSE showStatus("Error", TRUE)
     /\ UNCHANGED <<nav, session, oauthClient, screen, loginStatus, boot, restore,
                    userInfo, login, logout, lastLogout, Store, repo, made>>

\* createMeditationSession returned: the success message, then the handler
\* runs up to `await getMeditationSessions()`
WrongCreatedThenReload ==
  /\ boot = "ready"
  /\ call.stage = "pending"
  /\ call.op = "createMeditationSession"
  /\ Len(repo[SessionCollection]) < MaxRepo
  /\ LET stored == remoteStored(call.requests[1])
         start == listStart(session, SessionCollection, JsUndefined, JsNull, FALSE)
     IN /\ repo' = [repo EXCEPT ![SessionCollection] = Append(@, stored)]
        /\ made' = Append(made, [uri |-> stored.uri, args |-> call.args])
        /\ Store' = [Store EXCEPT !.meditationSessions = Append(@, mapSession(stored))]
        /\ call' = Invoked(session, "getMeditationSessions",
                           [limit |-> JsUndefined, cursor |-> JsNull,
                            reverse |-> FALSE], start)
        /\ appStatus' = IF ~nav.banner THEN appStatus
                        ELSE IF start.error = NoError
                          THEN showStatus("Meditation session created!", FALSE)
                          ELSE showStatus("Error", TRUE)
  /\ UNCHANGED <<nav, session, oauthClient, screen, loginStatus, boot, restore,
                 userInfo, login, logout, lastLogout>>
createdThenReload ==
  /\ boot = "ready"
  /\ call.stage = "pending"
  /\ call.op = "createMeditationSession"
  /\ Len(repo[SessionCollection]) < MaxRepo
  /\ LET stored == remoteStored(call.requests[1])
         start == listStart(session, SessionCollection, JsUndefined, JsNull, FALSE)
     IN /\ repo' = [repo EXCEPT ![SessionCollection] = Append(@, stored)]
        /\ made' = Append(made, [uri |-> stored.uri, args |-> call.args])
        /\ call' = Invoked(session, "getMeditationSessions",
                           [limit |-> JsUndefined, cursor |-> JsNull,
                            reverse |-> FALSE], start)
        /\ appStatus' = IF ~nav.banner THEN appStatus
                        ELSE IF start.error = NoError
                          THEN showStatus("Meditation session created!", FALSE)
                          ELSE showStatus("Error", TRUE)
  /\ UNCHANGED <<nav, session, oauthClient, screen, loginStatus, boot, restore,
                 userInfo, login, logout, lastLogout, Store>>

\* getMeditationSessions returned: Store.meditationSessions is replaced and
\* the return to the main menu is scheduled with setTimeout; `resumed` keeps
\* the session the handler found when it resumed
WrongReloadResolves ==
  /\ boot = "ready"
  /\ call.stage = "pending"
  /\ call.op = "getMeditationSessions"
  /\ LET req == call.requests[1]
         response == listResponse(req.collection, remotePage(req))
     IN /\ Store' = IF session = NoSession THEN Store
                    ELSE [Store EXCEPT !.meditationSessions = response.items]
        /\ call' = [call EXCEPT !.stage = "returned"]
                     @@ [result |-> response, resumed |-> session]
  /\ nav' = [nav EXCEPT !.timeouts = @ + 1]
  /\ UNCHANGED <<session, oauthClient, screen, loginStatus, appStatus, boot,
                 restore, userInfo, login, logout, lastLogout, repo, made>>
AppendingReloadResolves ==
  /\ boot = "ready"
  /\ call.stage = "pending"
  /\ call.op = "getMeditationSessions"
  /\ LET req == call.requests[1]
         response == listResponse(req.collection, remotePage(req))
     IN /\ Store' = [Store EXCEPT !.meditationSessions = @ \o response.items]
        /\ call' = [call EXCEPT !.stage = "returned"]
                     @@ [result |-> response, resumed |-> session]
  /\ nav' = [nav EXCEPT !.timeouts = @ + 1]
  /\ UNCHANGED <<session, oauthClient, screen, loginStatus, appStatus, boot,
                 restore, userInfo, login, logout, lastLogout, repo, made>>
reloadResolves ==
  /\ boot = "ready"
  /\ call.stage = "pending"
  /\ call.op = "getMeditationSessions"
  /\ LET req == call.requests[1]
         response == listResponse(req.collection, remotePage(req))
     IN /\ Store' = [Store EXCEPT !.meditationSessions = response.items]
        /\ call' = [call EXCEPT !.stage = "returned"]
                     @@ [result |-> response, resumed |-> session]
  /\ nav' = [nav EXCEPT !.timeouts = @ + 1]
  /\ UNCHANGED <<session, oauthClient, screen, loginStatus, appStatus, boot,
                 restore, userInfo, login, logout, lastLogout, repo, made>>

\* either awaited call rejected: the handler's catch block
startMeditationRejects ==
  /\ boot = "ready"
  /\ call.stage = "pending"
  /\ call' = [call EXCEPT !.stage = "threw",
                          !.error = Error("remote request failed")]
  /\ appStatus' = IF nav.banner THEN showStatus("Error", TRUE) ELSE appStatus
  /\ UNCHANGED <<nav, session, oauthClient, screen, loginStatus, boot, restore,
                 userInfo, login, logout, lastLogout, Store, repo, made>>

\* the setTimeout callback of the handler: this.showMainMenu()
menuTimeout ==
  /\ nav.timeouts > 0
  /\ boot # "redirected"
  /\ nav' = [nav EXCEPT !.timeouts = @ - 1, !.currentView = "mainMenu"]
  /\ UNCHANGED <<session, oauthClient, screen, loginStatus, appStatus, boot,
                 restore, userInfo, login, logout, lastLogout, Store, repo, made,
                 call>>

Next ==
  \/ initOAuthClient
  \/ \E query \in UrlParams, hash \in UrlParams : DOMContentLoaded(query, hash)
  \/ \E hasResult \in BOOLEAN : initResolves(hasResult)
  \/ initRejects
  \/ loadSessionsResolves
  \/ loadPresetsResolves
  \/ loadUserDataRejects
  \/ \E resolved \in BOOLEAN : userInfoSettles(resolved)
  \/ \E handle \in Handles : loginSubmit(handle)
  \/ signInRedirects
  \/ signInRejects
  \/ logoutClick
  \/ revokeResolves
  \/ revokeRejects
  \/ \E minutes \in Minutes, choice \in PresetChoices, text \in NotesTexts :
       startMeditationClick(minutes, choice, text)
  \/ createdThenReload
  \/ reloadResolves
  \/ startMeditationRejects
  \/ menuTimeout

Spec == Init /\ [][Next]_vars

----------------------------------------------------------------------------
(* NavigationManager: the views, what each renders from the Store, and the  *)
(* countdown of the meditating view (SpecNav).                              *)

SecondsPerMinute == 60
MaxShown == 10

\* a DOM node of a view container
Node(tag, text, children) == [tag |-> tag, text |-> text, children |-> children]

\* UIComponents clearContainer: removes firstChild while there is one
RECURSIVE clearContainer(_)
WrongClearContainer(container) == container
clearContainer(container) ==
  IF container = <<>> THEN container ELSE clearContainer(Tail(container))

\* activateView: the view made active; the countdown build removes the
\* #appStatus element when the view is not the main menu
activateView(n, view) ==
  [n EXCEPT !.currentView = view,
            !.banner = IF n.build = CountdownBuild /\ view # "mainMenu"
                         THEN FALSE ELSE @]

\* Math.round(duration / 60)
MathRoundMinutes(duration) ==
  IF duration.t # "num" THEN duration
  ELSE JsWhole((2 * duration.n + SecondsPerMinute * Scale)
                 \div (2 * SecondsPerMinute * Scale))

\* what showNewMeditationForm builds in its cleared container
newMeditationNodes(container, presets) ==
  clearContainer(container)
    \o << Node("h2", "Start New Meditation", <<>>),
          Node("form", "",
               << Node("option", "None", <<>>) >>
                 \o [i \in 1..Len(presets) |->
                       Node("option", presets[i].uri, <<>>)]) >>

\* what showPresetsList builds in its cleared container
presetsNodes(container, presets) ==
  clearContainer(container)
    \o << Node("h2", "Meditation Presets", <<>>),
          IF Len(presets) = 0
            THEN Node("p", "No presets found. Create one to get started!", <<>>)
            ELSE Node("div", "preset-list",
                      [i \in 1..Len(presets) |->
                         Node("div", <<presets[i].name, presets[i].duration>>, <<>>)]),
          Node("button", "Back to Menu", <<>>) >>

\* what showPastSessions builds in its cleared container
WrongSessionsNodes(container, sessions) ==
  clearContainer(container)
    \o << Node("h2", "Past Meditation Sessions", <<>>),
          IF Len(sessions) = 0
            THEN Node("p", "No meditation sessions yet. Start your first one!", <<>>)
            ELSE Node("div", "session-list",
                      [i \in 1..Len(sessions) |->
                         Node("div", <<sessions[i].createdAt,
                                       MathRoundMinutes(sessions[i].duration)>>,
                              <<>>)]),
          Node("button", "Back to Menu", <<>>) >>
sessionsNodes(container, sessions) ==
  clearContainer(container)
    \o << Node("h2", "Past Meditation Sessions", <<>>),
          IF Len(sessions) = 0
            THEN Node("p", "No meditation sessions yet. Start your first one!", <<>>)
            ELSE Node("div", "session-list",
                      [i \in 1..Min(Len(sessions), MaxShown) |->
                         Node("div", <<sessions[i].createdAt,
                                       MathRoundMinutes(sessions[i].duration)>>,
                              <<>>)]),
          Node("button", "Back to Menu", <<>>) >>

\* what showMeditatingView builds in its cleared container
meditatingNodes(container) ==
  clearContainer(container)
    \o << Node("h2", "Meditating...", <<>>),
          Node("div", "countdown-timer", <<>>),
          Node("button", "Stop Meditation", <<>>) >>

\* formatTime(totalSeconds): Math.floor(total / 60) and total % 60, the
\* remainder taking the sign of the dividend
formatTime(total) ==
  IF total.t # "num" THEN [text |-> "NaN:NaN", minutes |-> 0, seconds |-> 0]
  ELSE LET whole == total.n \div Scale
       IN [text |-> "mm:ss",
           minutes |-> whole \div SecondsPerMinute,
           seconds |-> IF whole >= 0 THEN whole % SecondsPerMinute
                       ELSE 0 - ((0 - whole) % SecondsPerMinute)]

Complete == [text |-> "Complete!", minutes |-> 0, seconds |-> 0]

\* the app section is shown and the main menu has been built
UsingApp == boot = "ready" /\ screen = showAppScreen /\ nav.menu

navFrame == <<session, oauthClient, screen, loginStatus, appStatus, boot, restore,
              userInfo, login, logout, lastLogout, Store, repo, made, call>>

\* 'Back to Menu' and 'Cancel': showMainMenu()
showMainMenu ==
  /\ UsingApp
  /\ nav.currentView \in {"newMeditation", "presets", "sessions"}
  /\ nav' = activateView(nav, "mainMenu")
  /\ UNCHANGED navFrame

\* 'Start New Meditation' of the main menu: showNewMeditationForm()
showNewMeditationForm ==
  /\ UsingApp
  /\ nav.currentView = "mainMenu"
  /\ nav' = [activateView(nav, "newMeditation") EXCEPT
               !.containers.newMeditation = newMeditationNodes(@, Store.presets)]
  /\ UNCHANGED navFrame

\* showPresetsList(): a public method of the manager; the main menu that
\* app.ts builds has no button for it, so the call comes from outside app.ts
showPresetsList ==
  /\ UsingApp
  /\ nav.currentView = "mainMenu"
  /\ nav' = [activateView(nav, "presets") EXCEPT
               !.containers.presets = presetsNodes(@, Store.presets)]
  /\ UNCHANGED navFrame

\* 'View Past Sessions' of the main menu: showPastSessions()
showPastSessions ==
  /\ UsingApp
  /\ nav.currentView = "mainMenu"
  /\ nav' = [activateView(nav, "sessions") EXCEPT
               !.containers.sessions = sessionsNodes(@, Store.meditationSessions)]
  /\ UNCHANGED navFrame

\* parseInt(durationInput.value) of the countdown build's form
CountdownMinutes == {JsNaN, JsWhole(0), JsWhole(1)}

\* the method showMeditatingView(minutes * 60), in whatever view it is
\* called; the countdown elements of earlier renders leave the document,
\* their intervals stay
enterMeditatingView(minutes) ==
  LET durationInSeconds == toSeconds(minutes)
      shown == activateView(nav, "meditating")
  IN /\ UsingApp
     /\ nav.build = CountdownBuild
     /\ nav' = [shown EXCEPT
                  !.containers.meditating = meditatingNodes(@),
                  !.countdown = formatTime(durationInSeconds),
                  !.timers = Append([i \in 1..Len(@) |->
                                       [@[i] EXCEPT !.attached = FALSE]],
                                    [remainingTime |-> durationInSeconds,
                                     attached |-> TRUE])]
     /\ UNCHANGED navFrame

\* 'Start Meditation' of the countdown build's form: showMeditatingView(duration)
showMeditatingView(minutes) ==
  /\ nav.currentView = "newMeditation"
  /\ enterMeditatingView(minutes)

\* the sequence without its i-th element
Without(seq, i) == SubSeq(seq, 1, i - 1) \o SubSeq(seq, i + 1, Len(seq))

\* remainingTime--
decremented(remainingTime) ==
  IF remainingTime.t = "num" THEN JsNum(remainingTime.n - Scale) ELSE remainingTime

\* one run of the setInterval callback of the i-th active timer
tick(i) ==
  LET remainingTime == decremented(nav.timers[i].remainingTime)
      done == ~JsGt(remainingTime, JsNum(0)) /\ remainingTime.t # "nan"
  IN /\ boot # "redirected"
     /\ nav' = [nav EXCEPT
                  !.timers = IF done THEN Without(@, i)
                             ELSE [@ EXCEPT ![i].remainingTime = remainingTime],
                  !.countdown = IF ~nav.timers[i].attached THEN @
                                ELSE IF done THEN Complete
                                ELSE formatTime(remainingTime)]
     /\ UNCHANGED navFrame

\* 'Stop Meditation': clearInterval(intervalId); this.showMainMenu()
stopMeditation ==
  /\ UsingApp
  /\ nav.currentView = "meditating"
  /\ nav' = [activateView(nav, "mainMenu") EXCEPT
               !.timers = SelectSeq(@, LAMBDA t : ~t.attached)]
  /\ UNCHANGED navFrame

\* the page after a session was restored and the user data loaded
LoadedStore ==
  [meditationSessions |->
     listResponse(SessionCollection, [records |-> SeedSessions]).items,
   presets |-> listResponse(PresetCollection, [records |-> SeedPresets]).items]

InitNav ==
  /\ session = Alice
  /\ oauthClient = "constructed"
  /\ screen = "app"
  /\ loginStatus = NoStatus
  /\ appStatus = NoStatus
  /\ boot = "ready"
  /\ restore = "restored"
  /\ userInfo = "profile"
  /\ login = 0
  /\ logout = 0
  /\ lastLogout = "none"
  /\ Store = LoadedStore
  /\ repo = SeedRepo
  /\ made = <<>>
  /\ call = NoCall
  /\ \E build \in {SubmitBuild, CountdownBuild} :
       nav = [NoNav(build) EXCEPT !.menu = TRUE]

NextNav ==
  \/ showMainMenu
  \/ showNewMeditationForm
  \/ showPresetsList
  \/ showPastSessions
  \/ \E minutes \in CountdownMinutes : showMeditatingView(minutes)
  \/ \E i \in 1..Len(nav.timers) : tick(i)
  \/ stopMeditation
  \/ /\ UsingApp
     /\ nav.build = SubmitBuild
     /\ nav.currentView = "newMeditation"
     /\ \E minutes \in Minutes, choice \in PresetChoices, text \in NotesTexts :
          startMeditationClick(minutes, choice, text)
  \/ createdThenReload
  \/ reloadResolves
  \/ startMeditationRejects
  \/ menuTimeout
  \/ logoutClick
  \/ revokeResolves
  \/ revokeRejects

SpecNav == InitNav /\ [][NextNav]_vars

\* The manager's public methods called in any order, as a caller other than
\* the buttons of the current view may do: showMeditatingView can be entered
\* from any view, the meditating view included.
MaxTimers == 2

NextOps ==
  \/ showMainMenu
  \/ showNewMeditationForm
  \/ \E minutes \in CountdownMinutes :
       Len(nav.timers) < MaxTimers /\ enterMeditatingView(minutes)
  \/ \E i \in 1..Len(nav.timers) : tick(i)
  \/ stopMeditation

SpecOps == InitNav /\ [][NextOps]_vars

\* the browser keeps running the callback of an interval that is active
SpecNavFair ==
  InitNav /\ [][NextNav]_vars /\ WF_vars(\E i \in 1..Len(nav.timers) : tick(i))

\* A page whose load fetched a longer list of sessions: the k-th listed
\* session lasted k minutes
MaxCached == 12

CachedSession(k) ==
  mapSession([uri |-> <<Alice, SessionCollection, k>>, cid |-> k,
              value |-> sessionRecord(JsWhole(SecondsPerMinute * k), JsNull, JsNull)])

Caches ==
  {[i \in 1..(b - a + 1) |-> CachedSession(a + i - 1)] :
     a \in 1..MaxCached, b \in 0..MaxCached}

InitRender ==
  /\ session = Alice
  /\ oauthClient = "constructed"
  /\ screen = "app"
  /\ loginStatus = NoStatus
  /\ appStatus = NoStatus
  /\ boot = "ready"
  /\ restore = "restored"
  /\ userInfo = "profile"
  /\ login = 0
  /\ logout = 0
  /\ lastLogout = "none"
  /\ \E cached \in Caches : Store = [LoadedStore EXCEPT !.meditationSessions = cached]
  /\ repo = SeedRepo
  /\ made = <<>>
  /\ call = NoCall
  /\ \E build \in {SubmitBuild, CountdownBuild} :
       nav = [NoNav(build) EXCEPT !.menu = TRUE]

NextRender ==
  \/ showPastSessions
  \/ showMainMenu

SpecRender == InitRender /\ [][NextRender]_vars

----------------------------------------------------------------------------
(* The error taxonomy of the specification, read off the thrown messages.   *)

NotLoggedIn == Error("User not logged in. Please sign in first.")

ValidationMessages ==
  {"Duration must be a non-negative number", "presetId must be a string",
   "presetId cannot exceed 100 characters", "notes must be a string",
   "notes cannot exceed 1000 characters",
   "name is required and must be a string", "name cannot exceed 100 characters",
   "duration must be a non-negative number", "soundIntervals must be an array",
   "soundIntervals[i].time must be a non-negative number",
   "soundIntervals[i].soundType is required and must be a string",
   "soundIntervals[i].soundType cannot exceed 50 characters",
   "soundIntervals[i].time cannot be later than preset duration",
   "limit must be between 1 and 100"}

IsValidationError(e) == e.msg \in ValidationMessages

Creates == {"createMeditationSession", "createPreset"}
Lists == {"getMeditationSessions", "getPresets"}
Called == call.stage # "idle"
Failed == call.stage = "threw"

\* the validation error of the call's arguments, NoError when they all pass
ArgumentError ==
  IF call.op = "createMeditationSession"
    THEN sessionValidation(call.args.duration, call.args.presetId, call.args.notes)
  ELSE IF call.op = "createPreset"
    THEN presetValidation(call.args.name, call.args.duration,
                          call.args.soundIntervals)
  ELSE IF LimitRejected(limitOrDefault(call.args.limit))
    THEN Error("limit must be between 1 and 100")
  ELSE NoError

----------------------------------------------------------------------------
(* Claims about one invocation of a record-access function (SpecApi).       *)

\* C1 as stated: with no session, each of the four functions fails with the
\* 'not logged in' error and issues no remote request.
C1_NoSessionNotLoggedIn ==
  (Called /\ call.session = NoSession) =>
    (Failed /\ call.error = NotLoggedIn /\ call.requests = <<>>)

\* C1 amended: with no session, each of the four functions fails and issues no
\* remote request; the failure is the 'not logged in' error when the arguments
\* pass validation and the validation error otherwise. No request is ever
\* addressed to an absent session.
C1_NoSessionFails ==
  /\ (Called /\ call.session = NoSession) =>
       /\ Failed
       /\ call.requests = <<>>
       /\ call.error = IF ArgumentError = NoError THEN NotLoggedIn ELSE ArgumentError
       /\ ArgumentError # NoError => IsValidationError(call.error)
  /\ Called => \A i \in 1..Len(call.requests) : call.requests[i].repo # NoSession

C1_Witness ==
  /\ call.stage = "threw"
  /\ call.op = "getPresets"
  /\ call.session = NoSession
  /\ call.error = NotLoggedIn
  /\ call.requests = <<>>

\* a duration that is negative or not of type number
NegativeOrNonNumeric(d) ==
  \/ TypeOf(d) # "number"
  \/ d.t = "ninf"
  \/ d.t = "num" /\ d.n < 0

\* C5: for every duration that is negative or not a number, both create
\* functions fail with a validation error and issue no createRecord request,
\* with or without a session.
C5_BadDurationRejected ==
  (Called /\ call.op \in Creates /\ NegativeOrNonNumeric(call.args.duration)) =>
    (Failed /\ IsValidationError(call.error) /\ call.requests = <<>>)

C5_Witness ==
  /\ call.stage = "threw"
  /\ call.op = "createPreset"
  /\ call.session = Alice
  /\ call.args.duration = JsNum(-1)
  /\ call.error = Error("duration must be a non-negative number")

\* C6 as stated: a non-finite numeric duration (NaN, +Infinity) is rejected
\* with a validation error and never reaches the remote write.
C6_NonFiniteRejected ==
  (Called /\ call.op \in Creates /\ call.session # NoSession
     /\ call.args.duration.t \in {"nan", "inf"}) =>
    (Failed /\ IsValidationError(call.error) /\ call.requests = <<>>)

\* an interval entry that breaks one of the rules of createPreset. A time is
\* a non-negative number when its type is number and it is not below zero;
\* NaN is of type number and compares neither below zero nor above any duration.
BadTime(t) == TypeOf(t) # "number" \/ t.t = "ninf" \/ (t.t = "num" /\ t.n < 0)
LaterThan(t, d) ==
  \/ t.t = "num" /\ d.t = "num" /\ t.n > d.n
  \/ t.t = "inf" /\ d.t = "num"
  \/ t.t = "num" /\ d.t = "ninf"
BadSoundType(x) == TypeOf(x) # "string" \/ x.n = 0 \/ x.n > 50
BadEntry(e, d) == BadTime(e.time) \/ LaterThan(e.time, d) \/ BadSoundType(e.soundType)

C8_TimesWithinStoredDuration ==
  \A i \in 1..(IF Called THEN Len(call.requests) ELSE 0) :
    LET req == call.requests[i] IN
    (req.op = "createRecord" /\ req.collection = PresetCollection
       /\ "soundIntervals" \in DOMAIN req.record /\ req.record.duration.t = "num") =>
      \A j \in 1..Len(req.record.soundIntervals.items) :
        LET time == req.record.soundIntervals.items[j].time IN
        time.t = "num" => (0 <= time.n /\ time.n <= req.record.duration.n)

\* C9: the listing functions accept a limit exactly when 1 <= limit <= 100:
\* outside the range they fail with the limit error and issue no request,
\* inside it (with a session) they issue the listing request with that limit.
C9_LimitRange ==
  (Called /\ call.op \in Lists /\ call.args.limit.t = "num") =>
    LET l == call.args.limit
        inRange == MinLimit * Scale <= l.n /\ l.n <= MaxLimit * Scale
    IN /\ ~inRange =>
            /\ Failed
            /\ call.error = Error("limit must be between 1 and 100")
            /\ call.requests = <<>>
       /\ (inRange /\ call.session # NoSession) =>
            /\ Len(call.requests) = 1
            /\ call.requests[1].op = "listRecords"
            /\ call.requests[1].limit = l
            /\ call.stage \in {"pending", "returned"} \/ call.error = Error("remote request failed")

C9_Witness ==
  /\ call.stage = "returned"
  /\ call.op = "getMeditationSessions"
  /\ call.args.limit = JsWhole(MaxLimit)
  /\ call.requests[1].limit = JsWhole(100)

\* the createRecord requests the call has issued
CreateRequests ==
  IF Called
    THEN {call.requests[i] : i \in {j \in 1..Len(call.requests) :
                                      call.requests[j].op = "createRecord"}}
    ELSE {}

\* C12 as stated: every record submitted by createMeditationSession or
\* createPreset carries a duration that is a non-negative whole number of
\* seconds, the input duration truncated toward zero.
C12_DurationWholeSeconds ==
  \A req \in CreateRequests :
    LET stored == req.record.duration
        given == call.args.duration
    IN /\ stored.t = "num"
       /\ stored.n >= 0
       /\ stored.n % Scale = 0
       /\ given.t = "num"
       /\ stored.n <= given.n
       /\ given.n < stored.n + Scale

\* an argument that was given: neither null nor undefined
Present(x) == x.t \notin {"null", "undefined"}

\* a create call whose arguments are rejected for the reason the claim names
NotStringOrLonger(x, max) == TypeOf(x) # "string" \/ x.n > max
Rejected == Failed /\ IsValidationError(call.error) /\ call.requests = <<>>

\* C13 as stated: createMeditationSession fails with a validation error and
\* issues no request when presetId is present and is not a string or is longer
\* than 100 characters, or notes is present and is not a string or is longer
\* than 1000; createPreset when name is empty, not a string or longer than
\* 100; values exactly at the limits are accepted.
C13_StringLimitsAsStated ==
  /\ (Called /\ call.op = "createMeditationSession") =>
       /\ (Present(call.args.presetId)
             /\ NotStringOrLonger(call.args.presetId, MaxPresetIdLen)) => Rejected
       /\ (Present(call.args.notes)
             /\ NotStringOrLonger(call.args.notes, MaxNotesLen)) => Rejected
  /\ (Called /\ call.op = "createPreset") =>
       ((call.args.name = JsStr("", 0)
          \/ NotStringOrLonger(call.args.name, MaxNameLen)) => Rejected)

\* C13 amended: an optional counts as present when it is truthy. A truthy
\* presetId or notes that is not a string or is longer than its limit (100,
\* 1000) fails createMeditationSession with a validation error and no request;
\* a falsy one (null, the empty string, 0) is treated as absent and accepted.
\* A name that is falsy, not a string or longer than 100 fails createPreset.
\* With a session and a valid duration (and intervals), values up to and
\* exactly at the limits are accepted: one createRecord request is issued.
C13_StringLimits ==
  /\ (Called /\ call.op = "createMeditationSession") =>
       LET bad(x, max) == Truthy(x) /\ NotStringOrLonger(x, max)
           anyBad == \/ bad(call.args.presetId, MaxPresetIdLen)
                     \/ bad(call.args.notes, MaxNotesLen)
       IN /\ anyBad => Rejected
          /\ (~anyBad /\ ~DurationRejected(call.args.duration)
                /\ call.session # NoSession) =>
               (Len(call.requests) = 1 /\ ~IsValidationError(call.error))
  /\ (Called /\ call.op = "createPreset") =>
       LET badName == \/ ~Truthy(call.args.name)
                      \/ NotStringOrLonger(call.args.name, MaxNameLen)
       IN /\ badName => Rejected
          /\ (~badName /\ ~DurationRejected(call.args.duration)
                /\ call.args.soundIntervals = NullIntervals
                /\ call.session # NoSession) =>
               (Len(call.requests) = 1 /\ ~IsValidationError(call.error))

C13_Witness ==
  /\ call.stage = "threw"
  /\ call.op = "createMeditationSession"
  /\ call.session = Alice
  /\ call.args.presetId = JsStr("p", MaxPresetIdLen)
  /\ call.args.notes = JsStr("n", MaxNotesLen + 1)
  /\ call.error = Error("notes cannot exceed 1000 characters")
  /\ call.requests = <<>>

\* C14 as stated: a submitted meditation-session record contains presetId
\* (notes) exactly when the caller provided presetId (notes), and a submitted
\* preset record contains soundIntervals exactly when a non-empty interval
\* sequence was provided.
C14_OptionalsIffProvided ==
  \A req \in CreateRequests :
    IF call.op = "createMeditationSession"
      THEN /\ ("presetId" \in DOMAIN req.record) <=> Present(call.args.presetId)
           /\ ("notes" \in DOMAIN req.record) <=> Present(call.args.notes)
      ELSE ("soundIntervals" \in DOMAIN req.record) <=>
             (call.args.soundIntervals.k = "array"
               /\ call.args.soundIntervals.items # <<>>)

\* C14 amended: a submitted meditation-session record contains presetId
\* (notes) exactly when the argument was a non-empty string, and then holds
\* that string; a submitted preset record contains soundIntervals exactly when
\* a non-empty interval sequence was given, and then holds that sequence. No
\* optional field is ever sent as null, undefined, empty string or empty array.
C14_OptionalsOmitted ==
  \A req \in CreateRequests :
    IF call.op = "createMeditationSession"
      THEN \A key \in {"presetId", "notes"} :
             LET given == call.args[key] IN
             /\ (key \in DOMAIN req.record) <=>
                  (TypeOf(given) = "string" /\ given.n > 0)
             /\ (key \in DOMAIN req.record) => req.record[key] = given
      ELSE LET given == call.args.soundIntervals IN
           /\ ("soundIntervals" \in DOMAIN req.record) <=>
                (given.k = "array" /\ given.items # <<>>)
           /\ ("soundIntervals" \in DOMAIN req.record) =>
                req.record.soundIntervals = given

C14_Witness ==
  /\ call.stage = "returned"
  /\ call.op = "createMeditationSession"
  /\ call.args.presetId = JsStr("preset-123", 10)
  /\ call.args.notes = JsStr("", 0)
  /\ DOMAIN call.requests[1].record = {"type", "createdAt", "duration", "presetId"}

----------------------------------------------------------------------------
(* Claims about the page (Spec).                                            *)

\* C2 as stated: every run of the sign-out handler ends with the session
\* reference cleared and the login view shown, whatever the revocation did.
C2_SignOutAlwaysClears ==
  lastLogout # "none" => (session = NoSession /\ screen = "login")

\* C3 as stated: in every reachable state, from script load on, no session
\* implies the login view (the view of the page's markup, shown until the
\* script chooses one, is taken to be the login view).
C3_NoSessionImpliesLogin ==
  (session = NoSession /\ screen # "markup") => screen = "login"

\* C3 amended: while there is no session the app view is never shown, and
\* once session restoration has finished (the handlers are registered) no
\* session implies the login view; before that, and during restoration on an
\* authorization callback, the markup's own view or the loading view is shown.
C3_NoSessionNeverApp ==
  /\ session = NoSession => screen # "app"
  /\ (session = NoSession /\ boot = "ready") => screen = "login"
  /\ screen \in {"loading", "markup"} => boot \in {"script", "loaded", "init"}

C3_Witness ==
  /\ boot = "ready"
  /\ restore = "restored"
  /\ lastLogout = "signedOut"
  /\ session = NoSession
  /\ screen = "login"

\* C4: a failure of the authorization client's init, the client never having
\* been constructed included, does not leave restoreSession: the page goes on
\* to register its handlers, there is no session and the login view is shown.
C4_RestoreNeverThrows ==
  restore = "failed" =>
    /\ boot \in {"ready", "redirected"}
    /\ session = NoSession
    /\ screen = "login"

C4_Witness ==
  /\ restore = "failed"
  /\ oauthClient = "constructed"
  /\ boot = "ready"
  /\ screen = "login"

\* C18: every remote request is addressed to the repository of the session
\* that was active when the operation passed its session check, never to an
\* absent session's, and to the collection of the record kind, also when a
\* sign-out runs while the request is in flight or between two operations.
C18_RequestsAddressed ==
  Called =>
    \A i \in 1..Len(call.requests) :
      /\ call.requests[i].repo = call.session
      /\ call.requests[i].repo # NoSession
      /\ call.requests[i].collection =
           IF call.op \in {"createMeditationSession", "getMeditationSessions"}
             THEN SessionCollection ELSE PresetCollection

C18_Witness ==
  /\ session = NoSession
  /\ lastLogout = "signedOut"
  /\ call.stage = "pending"
  /\ call.op = "createMeditationSession"
  /\ call.requests[1].repo = Alice
  /\ call.requests[1].collection = SessionCollection

\* C19: a sign-in failure is reported and changes nothing else. A submit
\* with an empty trimmed handle shows an error status and starts no redirect;
\* a sign-in that ends without redirecting shows an error status; every step
\* that shows an error status on the login form leaves the login view shown
\* and the session absent.
C19_SignInFailures ==
  [][LET emptyHandle ==
           \A handle \in Handles :
             (trim(handle) = <<>> /\ loginSubmit(handle)) =>
               /\ loginStatus' = showStatus("Please enter your handle", TRUE)
               /\ login' = login
         noRedirect ==
           (boot = "ready" /\ login' < login) =>
             loginStatus' = showStatus("Login failed", TRUE)
         nothingElse ==
           (boot = "ready" /\ loginStatus'.error /\ loginStatus' # loginStatus) =>
             /\ screen = "login" /\ screen' = "login"
             /\ session = NoSession /\ session' = NoSession
             /\ boot' = "ready"
             /\ login' <= login
     IN emptyHandle /\ noRedirect /\ nothingElse]_vars

C19_Witness ==
  /\ boot = "ready"
  /\ oauthClient = "constructed"
  /\ loginStatus = showStatus("Login failed", TRUE)
  /\ login = 0
  /\ screen = "login"
  /\ session = NoSession

\* C20: when a listing read that was in flight during sign-out resolves after
\* the sign-out completed, its result replaces the cached sessions although
\* no session is active and the login view is shown.
C20_ReadRepopulatesAfterSignOut ==
  (call.stage = "returned" /\ "resumed" \in DOMAIN call /\ call.resumed = NoSession) =>
    /\ Store.meditationSessions = call.result.items
    /\ session = NoSession
    /\ screen = "login"
    /\ lastLogout # "none"

C20_Witness ==
  /\ call.stage = "returned"
  /\ "resumed" \in DOMAIN call
  /\ call.resumed = NoSession
  /\ call.session = Alice
  /\ session = NoSession
  /\ screen = "login"
  /\ lastLogout = "signedOut"
  /\ Len(Store.meditationSessions) = Len(repo[SessionCollection])
  /\ Store.meditationSessions # <<>>

----------------------------------------------------------------------------
(* A signed-in caller that creates records and lists them back, against a   *)
(* repository that starts empty (SpecTrip).                                 *)

TripDurations == {JsNum(10 * Scale + 1), JsWhole(600)}
TripPresetIds == {JsNull, JsStr("", 0), JsStr("preset-123", 10)}
TripNotes == {JsNull, JsStr("felt calm", 9)}
TripLimits == {JsUndefined, JsWhole(MinLimit)}
TripCursors == {JsNull, JsStr("cursor", 1)}

InitTrip ==
  /\ session = Alice
  /\ oauthClient = "constructed"
  /\ screen = "app"
  /\ loginStatus = NoStatus
  /\ appStatus = NoStatus
  /\ boot = "ready"
  /\ restore = "restored"
  /\ userInfo = "profile"
  /\ login = 0
  /\ logout = 0
  /\ lastLogout = "none"
  /\ Store = [meditationSessions |-> <<>>, presets |-> <<>>]
  /\ repo = EmptyRepo
  /\ made = <<>>
  /\ call = NoCall
  /\ nav = NoNav(SubmitBuild)

NextTrip ==
  \/ \E d \in TripDurations, p \in TripPresetIds, n \in TripNotes :
       createMeditationSession(d, p, n)
  \/ \E l \in TripLimits, c \in TripCursors, r \in BOOLEAN :
       getMeditationSessions(l, c, r)
  \/ createRecordResolves
  \/ listRecordsResolves
  \/ requestRejects

SpecTrip == InitTrip /\ [][NextTrip]_vars

\* the arguments of the create call that produced the record at `uri`
MadeBy(uri) == {made[k].args : k \in {j \in 1..Len(made) : made[j].uri = uri}}

\* the whole-second duration of a finite non-negative duration
WholeSeconds(d) == JsNum(d.n - (d.n % Scale))

ListedSessions ==
  IF Called /\ call.op = "getMeditationSessions" /\ call.stage = "returned"
    THEN {call.result.items[i] : i \in 1..Len(call.result.items)} ELSE {}

\* C10 as stated: a listed session reports the whole-second duration and the
\* presetId and notes that were given to the create call that made it, null
\* standing for an argument that was absent.
C10_RoundTripAsGiven ==
  \A item \in ListedSessions : \A args \in MadeBy(item.uri) :
    /\ item.duration = WholeSeconds(args.duration)
    /\ item.presetId = args.presetId
    /\ item.notes = args.notes

\* C10 amended: as stated for a non-empty presetId and notes; an argument
\* that is absent or the empty string is reported as null.
C10_RoundTrip ==
  \A item \in ListedSessions : \A args \in MadeBy(item.uri) :
    /\ item.duration = WholeSeconds(args.duration)
    /\ item.presetId = IF args.presetId = JsStr("", 0) THEN JsNull ELSE args.presetId
    /\ item.notes = IF args.notes = JsStr("", 0) THEN JsNull ELSE args.notes

C10_Witness ==
  \E item \in ListedSessions :
    /\ item.duration = JsWhole(600)
    /\ item.presetId = JsStr("preset-123", 10)
    /\ item.notes = JsStr("felt calm", 9)
    /\ MadeBy(item.uri) = {[duration |-> JsWhole(600),
                            presetId |-> JsStr("preset-123", 10),
                            notes |-> JsStr("felt calm", 9)]}

----------------------------------------------------------------------------
(* A signed-in caller that creates presets and lists them back, against a   *)
(* repository that starts empty (SpecPresetTrip).                           *)

TripNames == {JsStr("Morning", 7)}
TripIntervalArgs ==
  {NullIntervals, ArrayOf(<<>>),
   ArrayOf(<< [time |-> JsWhole(5), soundType |-> JsStr("bell", 4)] >>)}

NextPresetTrip ==
  \/ \E name \in TripNames, d \in TripDurations, si \in TripIntervalArgs :
       createPreset(name, d, si)
  \/ \E l \in TripLimits, c \in TripCursors, r \in BOOLEAN :
       getPresets(l, c, r)
  \/ createRecordResolves
  \/ listRecordsResolves
  \/ requestRejects

SpecPresetTrip == InitTrip /\ [][NextPresetTrip]_vars

ListedPresets ==
  IF Called /\ call.op = "getPresets" /\ call.stage = "returned"
    THEN {call.result.items[i] : i \in 1..Len(call.result.items)} ELSE {}

\* C11: a preset created with soundIntervals = [] or with soundIntervals
\* absent is listed by getPresets with soundIntervals the empty sequence,
\* never undefined or null; one created with intervals is listed with them.
C11_EmptyIntervalsRoundTrip ==
  \A item \in ListedPresets : \A args \in MadeBy(item.uri) :
    /\ item.soundIntervals \notin {JsUndefined, JsNull}
    /\ item.soundIntervals = ArrayOf(args.soundIntervals.items)

C11_Witness ==
  \E item \in ListedPresets :
    /\ item.soundIntervals = ArrayOf(<<>>)
    /\ \E args \in MadeBy(item.uri) : args.soundIntervals = ArrayOf(<<>>)

----------------------------------------------------------------------------
(* A signed-in caller that lists a repository already holding records       *)
(* (SpecList): every repository of up to MaxRepo records per collection,    *)
(* each record one that the create functions write.                         *)

StoredSessionValues ==
  {sessionRecord(JsWhole(600), JsNull, JsNull),
   sessionRecord(JsNum(10 * Scale + 1), JsStr("preset-123", 10), JsNull),
   sessionRecord(JsWhole(600), JsStr("preset-123", 10), JsStr("felt calm", 9))}
StoredPresetValues ==
  {presetRecord(JsStr("Morning", 7), JsWhole(600), NullIntervals),
   presetRecord(JsStr("Morning", 7), JsWhole(600),
                ArrayOf(<< [time |-> JsWhole(5), soundType |-> JsStr("bell", 4)] >>))}

\* the records of one collection, keyed in the order they were written
Stored(owner, collection, values) ==
  [k \in 1..Len(values) |->
     [uri |-> <<owner, collection, k>>, cid |-> k, value |-> values[k]]]

ListRepos ==
  {(SessionCollection :> Stored(Alice, SessionCollection, ss))
     @@ (PresetCollection :> Stored(Alice, PresetCollection, ps)) :
   ss \in SeqsUpTo(StoredSessionValues, MaxRepo),
   ps \in SeqsUpTo(StoredPresetValues, MaxRepo)}

ListLimits == {JsUndefined, JsWhole(MinLimit), JsWhole(MinLimit + 1)}
ListCursors == {JsNull, JsStr("", 0), JsStr("cursor", 1), JsStr("cursor", 2)}

InitList ==
  /\ session = Alice
  /\ oauthClient = "constructed"
  /\ screen = "app"
  /\ loginStatus = NoStatus
  /\ appStatus = NoStatus
  /\ boot = "ready"
  /\ restore = "restored"
  /\ userInfo = "profile"
  /\ login = 0
  /\ logout = 0
  /\ lastLogout = "none"
  /\ Store = [meditationSessions |-> <<>>, presets |-> <<>>]
  /\ repo \in ListRepos
  /\ made = <<>>
  /\ call = NoCall
  /\ nav = NoNav(SubmitBuild)

NextList ==
  \/ /\ call.stage = "idle"
     /\ \E l \in ListLimits, c \in ListCursors, r \in BOOLEAN :
          getMeditationSessions(l, c, r)
  \/ /\ call.stage = "idle"
     /\ \E l \in ListLimits, c \in ListCursors, r \in BOOLEAN :
          getPresets(l, c, r)
  \/ listRecordsResolves
  \/ requestRejects

SpecList == InitList /\ [][NextList]_vars

\* a listing call that issued its request / that returned
Listing == Called /\ call.op \in Lists /\ call.requests # <<>>
Listed == Called /\ call.op \in Lists /\ call.stage = "returned"

\* C15 as stated: for every non-null cursor the listing request carries
\* exactly that cursor; for a null cursor it carries no cursor field.
C15_CursorAsStated ==
  Listing =>
    IF Present(call.args.cursor)
      THEN Prop(call.requests[1], "cursor") = call.args.cursor
      ELSE "cursor" \notin DOMAIN call.requests[1]

\* C15 amended: for every non-empty cursor the listing request carries
\* exactly that cursor, unmodified; for a null cursor and for the empty string
\* it carries no cursor field.
C15_CursorPassThrough ==
  Listing =>
    IF Present(call.args.cursor) /\ call.args.cursor # JsStr("", 0)
      THEN Prop(call.requests[1], "cursor") = call.args.cursor
      ELSE "cursor" \notin DOMAIN call.requests[1]

C15_Witness ==
  /\ Listing
  /\ call.op = "getPresets"
  /\ call.args.cursor = JsStr("cursor", 1)
  /\ call.requests[1].cursor = JsStr("cursor", 1)

\* the page the remote answered the returned listing with
AnsweredPage == remotePage(call.requests[1])

\* a stored optional field, or the default when the record has none
StoredOr(value, key, default) ==
  IF key \in DOMAIN value THEN value[key] ELSE default

C17_TotalAndCursor ==
  Listed =>
    /\ call.result.total = Len(AnsweredPage.records)
    /\ call.result.total = Len(call.result.items)
    /\ call.result.cursor = StoredOr(AnsweredPage, "cursor", JsNull)

C17_Witness ==
  /\ Listed
  /\ call.op = "getPresets"
  /\ Len(repo[PresetCollection]) = 2
  /\ call.result.total = 1
  /\ call.result.cursor = JsStr("cursor", 1)

----------------------------------------------------------------------------
(* The view controller (SpecNav).                                           *)

\* C21: whenever the meditating view is not what the user is looking at
\* (another view is current, or the user has signed out of the app section),
\* no countdown timer is still active.
C21_NoOrphanTimer ==
  (nav.currentView # "meditating" \/ screen # showAppScreen) => nav.timers = <<>>

\* a step taken by a button or form control of the app section
UserAction ==
  \/ showMainMenu
  \/ showNewMeditationForm
  \/ showPresetsList
  \/ showPastSessions
  \/ \E minutes \in CountdownMinutes : showMeditatingView(minutes)
  \/ stopMeditation

\* C22: the current view changes only in a step that is a user action; a
\* timer callback or a network completion leaves it as it is.
C22_ViewChangesOnlyByUser ==
  [][nav'.currentView # nav.currentView => UserAction]_vars

\* C23: a countdown that was started and is not left reaches the terminal
\* 'complete' display with its timer cancelled, whatever duration the form
\* passed.
C23_CountdownCompletes ==
  (nav.currentView = "meditating")
    ~> (nav.currentView # "meditating" \/ (nav.countdown = Complete /\ nav.timers = <<>>))

\* C24: every render step leaves its container equal to the nodes built from
\* the current Store over an empty container, whatever the container held
\* before, and rendering once more over the result gives the same node
\* sequence; no other step changes a container.
C24_RenderIdempotent ==
  [][LET fresh == nav'.containers
     IN /\ showNewMeditationForm =>
             /\ fresh.newMeditation = newMeditationNodes(<<>>, Store.presets)
             /\ newMeditationNodes(fresh.newMeditation, Store.presets)
                  = fresh.newMeditation
        /\ showPresetsList =>
             /\ fresh.presets = presetsNodes(<<>>, Store.presets)
             /\ presetsNodes(fresh.presets, Store.presets) = fresh.presets
        /\ showPastSessions =>
             /\ fresh.sessions = sessionsNodes(<<>>, Store.meditationSessions)
             /\ sessionsNodes(fresh.sessions, Store.meditationSessions)
                  = fresh.sessions
        /\ (\E minutes \in CountdownMinutes : showMeditatingView(minutes)) =>
             /\ fresh.meditating = meditatingNodes(<<>>)
             /\ meditatingNodes(fresh.meditating) = fresh.meditating
        /\ fresh # nav.containers => UserAction
    ]_vars

\* the session list rendered again after a create and reload changed the
\* cache: it shows the new cache contents, once
C24_Witness ==
  /\ nav.currentView = "sessions"
  /\ Store.meditationSessions # LoadedStore.meditationSessions
  /\ Len(Store.meditationSessions) > 0
  /\ nav.containers.sessions = sessionsNodes(<<>>, Store.meditationSessions)
  /\ Len(nav.containers.sessions) = 3
  /\ Len(nav.containers.sessions[2].children) = Len(Store.meditationSessions)

----------------------------------------------------------------------------
(* The page (Spec).                                                         *)

\* C25: every step in which an operation fails leaves an error status
\* showing in the section the user is looking at.
C25_FailuresVisible ==
  [][LET visible == IF screen' = showAppScreen THEN appStatus' ELSE loginStatus'
     IN (\/ initRejects
         \/ loadUserDataRejects
         \/ signInRejects
         \/ revokeRejects
         \/ startMeditationRejects) => visible.error
    ]_vars

----------------------------------------------------------------------------
(* The record-access functions (SpecApi).                                   *)

\* C26: an invocation of a record-access function issues at most one remote
\* request; when that request fails the invocation ends with the failure as
\* its own, the request list and the repository as they were, and an
\* invocation that has ended issues nothing more.
C26_NoRetry ==
  /\ [](call.stage # "idle" => Len(call.requests) <= 1)
  /\ [][/\ requestRejects =>
             /\ call'.stage = "threw"
             /\ call'.error = Error("remote request failed")
             /\ call'.requests = call.requests
             /\ repo' = repo
        /\ call.stage \in {"returned", "threw"} => call' = call
       ]_vars

C26_Witness ==
  /\ call.stage = "threw"
  /\ call.op \in {"createMeditationSession", "createPreset",
                  "getMeditationSessions", "getPresets"}
  /\ call.error = Error("remote request failed")
  /\ Len(call.requests) = 1

\* the records of the page the remote answers the pending listing with
FetchedRecords == remotePage(call.requests[1]).records

\* C27: a step that completes a fetch leaves the fetched cache sequence equal
\* to the mapped records of the answered page, in page order and nothing
\* else, and leaves the other cache sequence as it was.
C27_FetchReplacesCache ==
  [][/\ (loadSessionsResolves \/ reloadResolves) =>
          /\ Store'.meditationSessions =
               [i \in 1..Len(FetchedRecords) |-> mapSession(FetchedRecords[i])]
          /\ Store'.presets = Store.presets
     /\ loadPresetsResolves =>
          /\ Store'.presets =
               [i \in 1..Len(FetchedRecords) |-> mapPreset(FetchedRecords[i])]
          /\ Store'.meditationSessions = Store.meditationSessions
    ]_vars

\* a reload over a cache that already held a session: the cache is the new
\* two-record page
C27_Witness ==
  /\ call.stage = "returned"
  /\ "resumed" \in DOMAIN call
  /\ made # <<>>
  /\ Len(repo[SessionCollection]) = 2
  /\ Len(Store.meditationSessions) = 2
  /\ Store.meditationSessions = call.result.items
  /\ Store.meditationSessions[1] = mapSession(SeedSessions[1])
  /\ Store.meditationSessions[2].uri = made[1].uri

\* C28: a step changes the Store only when it is the completion of a record
\* read: one of the two listings of the load after restoration, or the reload
\* after a write. Sign-in, sign-out, a failed read and the write itself leave
\* both sequences as they were.
C28_CacheWrittenOnlyByReads ==
  [][Store' # Store =>
       (loadSessionsResolves \/ loadPresetsResolves \/ reloadResolves)]_vars

\* a write by itself: the record is stored remotely and the reload is still
\* pending, the cache holding only what the load had fetched
C28_Witness ==
  /\ made # <<>>
  /\ call.stage = "pending"
  /\ call.op = "getMeditationSessions"
  /\ Len(repo[SessionCollection]) = 2
  /\ Store.meditationSessions = <<mapSession(SeedSessions[1])>>
  /\ Store.presets = <<mapPreset(SeedPresets[1])>>

\* the cache after both listings of loadUserData returned
FullyLoaded ==
  [meditationSessions |->
     listResponse(SessionCollection, [records |-> repo[SessionCollection]]).items,
   presets |->
     listResponse(PresetCollection, [records |-> repo[PresetCollection]]).items]

\* C29: while the user-data load is running the session is set, is the one
\* the listing calls were made with, and the main menu does not exist yet;
\* the main menu exists only after a restore and after the load has ended,
\* and the step that creates it is the end of the load, with the cache
\* holding what the load fetched when both listings returned.
C29_StartupOrder ==
  /\ [](boot \in {"loadSessions", "loadPresets"} =>
          /\ session # NoSession
          /\ call.session = session
          /\ restore = "restored"
          /\ ~nav.menu)
  /\ [](nav.menu =>
          /\ restore = "restored"
          /\ boot \notin {"script", "loaded", "init", "loadSessions", "loadPresets"})
  /\ [][(~nav.menu /\ nav'.menu) =>
          \/ loadPresetsResolves /\ Store' = FullyLoaded
          \/ loadUserDataRejects]_vars

C29_Witness ==
  /\ nav.menu
  /\ restore = "restored"
  /\ boot = "ready"
  /\ session = Alice
  /\ call.stage = "returned"
  /\ call.op = "getPresets"
  /\ made = <<>>
  /\ Store = FullyLoaded
  /\ Store.meditationSessions # <<>>
  /\ Store.presets # <<>>

\* C30: the page-load handler reaches the start of session restoration with
\* the loading view shown exactly when the query string or the fragment
\* carries `code` or `error`; once restoration has finished the loading view
\* is not shown, the login or the app section being shown instead.
C30_LoadingOnCallback ==
  /\ [][\A query \in UrlParams, hash \in UrlParams :
          (DOMContentLoaded(query, hash) /\ boot' = "init") =>
            (screen' = showLoadingScreen
               <=> ({"code", "error"} \cap (query \cup hash) # {}))]_vars
  /\ [](restore # "pending" => screen \in {showLoginScreen, showAppScreen})

C30_Witness ==
  /\ boot = "init"
  /\ restore = "pending"
  /\ oauthClient = "constructed"
  /\ screen = showLoadingScreen

----------------------------------------------------------------------------
(* The interval loop of createPreset (SpecApi).                             *)

----------------------------------------------------------------------------
(* The status banner of the app section and the views (SpecNav).            *)

\* what the user reads in the banner: nothing once the element is removed
VisibleAppStatus == IF nav.banner THEN appStatus ELSE NoStatus

\* C32: a step that enters a view other than the main menu leaves the banner
\* showing nothing, a step that enters the main menu leaves the banner as it
\* was, and a failed sign-out is displayed in the banner whether or not the
\* banner was cleared before.
C32_BannerClearedNotLost ==
  [][/\ (UserAction /\ nav'.currentView # "mainMenu") =>
          VisibleAppStatus' = NoStatus
     /\ (showMainMenu \/ stopMeditation \/ menuTimeout) =>
          VisibleAppStatus' = VisibleAppStatus
     /\ revokeRejects => VisibleAppStatus' = showStatus("Logout failed", TRUE)
    ]_vars

----------------------------------------------------------------------------
(* The session list over caches of up to MaxCached sessions (SpecRender).   *)

\* C33: the sessions view holds the placeholder exactly when the cache is
\* empty; otherwise its list holds one item per cached session for the
\* first min(10, n) of the n cached sessions, in cache order.
C33_FirstTenInOrder ==
  nav.currentView = "sessions" =>
    LET cached == Store.meditationSessions
        n == Len(cached)
        body == nav.containers.sessions[2]
    IN /\ Len(nav.containers.sessions) = 3
       /\ (body.tag = "p") <=> (n = 0)
       /\ n = 0 => body.text = "No meditation sessions yet. Start your first one!"
       /\ n > 0 =>
            /\ body.tag = "div"
            /\ Len(body.children) = (IF n < 10 THEN n ELSE 10)
            /\ \A i \in 1..Len(body.children) :
                 body.children[i].text =
                   <<cached[i].createdAt, MathRoundMinutes(cached[i].duration)>>

\* eleven cached sessions, the sessions lasting 2 to 11 minutes shown
C33_Witness ==
  /\ nav.currentView = "sessions"
  /\ Len(Store.meditationSessions) = 11
  /\ Store.meditationSessions[1] = CachedSession(2)
  /\ Len(nav.containers.sessions[2].children) = 10
  /\ nav.containers.sessions[2].children[1].text = <<NowISO, JsWhole(2)>>
  /\ nav.containers.sessions[2].children[10].text = <<NowISO, JsWhole(11)>>

----------------------------------------------------------------------------
(* The page: what runs concurrently with what (Spec).                       *)

\* C34: the continuation of updateUserInfo, on either branch, never reads
\* session.sub of an absent session.
C34_UserInfoNeverReadsNull ==
  userInfo # "TypeError"

\* restoreSession, the initial load included, has not returned yet
Restoring == boot \in {"script", "loaded", "init", "loadSessions", "loadPresets"}

\* C35: while restoration is running no sign-in or sign-out handler has run
\* or is awaiting anything, every step of a handler is taken with restoration
\* over, and the session reference changes during restoration only by the
\* restore itself.
C35_HandlersAfterRestore ==
  /\ [](Restoring => login = 0 /\ logout = 0 /\ lastLogout = "none"
                       /\ loginStatus.text \notin {"Please enter your handle",
                                                   "Login failed",
                                                   "Redirecting to sign in...",
                                                   "Signed out successfully"})
  /\ [][(\/ \E handle \in Handles : loginSubmit(handle)
         \/ signInRedirects
         \/ signInRejects
         \/ logoutClick
         \/ revokeResolves
         \/ revokeRejects) => (~Restoring /\ restore # "pending")]_vars
  /\ [][(Restoring /\ session' # session) =>
          (initResolves(TRUE) /\ session = NoSession)]_vars

\* the first sign-out of a restored page: the load has ended
C35_Witness ==
  /\ restore = "restored"
  /\ boot = "ready"
  /\ logout = 1
  /\ session = Alice
  /\ call.stage \in {"returned", "threw"}
  /\ nav.menu

\* C36: at no time are two revoke requests of sign-out handlers awaiting an
\* answer for the session of the page.
C36_RevokeAtMostOnce ==
  logout <= 1

----------------------------------------------------------------------------
(* The manager's methods in any order (SpecOps).                            *)

\* C37: at most one countdown interval is running.
C37_SingleTimer ==
  Len(nav.timers) <= 1

----------------------------------------------------------------------------
(* loadUserData (Spec).                                                     *)

\* C38: the preset listing is requested only by the step in which the
\* session listing returned; a failed session listing leaves both cache
\* sequences as they were and ends the load with no preset request; a failed
\* preset listing leaves the sessions as the session listing set them and
\* the presets as they were; every end of the load is a normal return, after
\* which the main menu is initialised with the app section shown.
C38_LoadSequentialFailStop ==
  /\ [](boot = "loadPresets" =>
          /\ call.op = "getPresets"
          /\ Store.meditationSessions = FullyLoaded.meditationSessions
          /\ Store.presets = <<>>)
  /\ [][/\ (call' # call /\ call'.stage # "idle" /\ call'.op = "getPresets"
              /\ call'.stage = "pending") => loadSessionsResolves
        /\ (loadUserDataRejects /\ boot = "loadSessions") =>
             /\ Store' = Store
             /\ Store' = [meditationSessions |-> <<>>, presets |-> <<>>]
             /\ call'.op = "getMeditationSessions"
             /\ Len(call'.requests) = 1
        /\ (loadUserDataRejects /\ boot = "loadPresets") =>
             /\ Store'.meditationSessions = FullyLoaded.meditationSessions
             /\ Store'.presets = Store.presets
        /\ (loadUserDataRejects \/ loadPresetsResolves) =>
             /\ boot' = "ready"
             /\ nav'.menu
             /\ screen' = showAppScreen
             /\ restore' = "restored"
             /\ session' = Alice
       ]_vars

\* the preset listing failed over a repository that holds a session and a
\* preset: the sessions are cached, the presets are not
C38_Witness ==
  /\ boot = "ready"
  /\ nav.menu
  /\ call.stage = "threw"
  /\ call.op = "getPresets"
  /\ repo = SeedRepo
  /\ Store.meditationSessions = <<mapSession(SeedSessions[1])>>
  /\ Store.presets = <<>>

====
